---- MODULE Spec2Model ----
(***************************************************************************)
(* split-to-chapters.py: split main.pdf into chapter PDFs using main.toc.  *)
(*                                                                         *)
(* The pipeline of main(): the table-of-contents entries are turned into   *)
(* inclusive page ranges (compute_ranges), the ranges are printed, and     *)
(* split_pdf walks the ranges in index order, drops a blank last page      *)
(* (is_blank_page), resolves the output filename (chapter_names or         *)
(* _sanitize_filename) and writes one document per chapter.                *)
(*                                                                         *)
(* Strings are sequences of one-character strings.  Pages are 1-based page *)
(* numbers (ChapterRange: "1-based page number from TOC"); pypdf indices   *)
(* are 0-based.  Chapter indices are 0-based as in the code, so chapter i  *)
(* is element i+1 of a TLA+ sequence.                                      *)
(***************************************************************************)
EXTENDS Integers, Sequences, FiniteSets, TLC

VARIABLES
    toc_exists,         \* toc_path.exists()
    pdf_exists,         \* pdf_path.exists()
    toc_entries,        \* parse_toc(toc_path): sequence of [title, start_page]
    total_pages,        \* len(reader.pages)
    toc_only,           \* args.toc_only
    use_chapter_names,  \* not args.no_predefined_names
    only_index,         \* args.chapter_index: None or an integer
    pc,                 \* position of the run
    ranges,             \* compute_ranges(...): sequence of ChapterRange
    printed,            \* the lines printed by main, in order
    i,                  \* split_pdf: loop index (0-based)
    info_title,         \* split_pdf: info.title of the current iteration
    filename,           \* split_pdf: the filename resolved in the current iteration
    page_kind,          \* what reading each page of the source yields (0-based index)
    decided,            \* chapter index -> result of is_blank_page on its last page
    written,            \* chapter index -> [name, pages] of the document written
    partial,            \* chapter indices whose file was opened but not completed
    dir_created,        \* out_path.parent.mkdir(...) has run
    log,                \* chapter indices whose iteration body ran, in order
    error               \* the exception that ended the run, or NoError

vars == <<toc_exists, pdf_exists, toc_entries, total_pages, toc_only,
          use_chapter_names, only_index, pc, ranges, printed, i, info_title, filename,
          page_kind, decided, written, partial, dir_created, log, error>>

None == <<>>          \* Python's None for an optional integer: <<>>, or <<k>> for k
NoError == "none"
Unread == "unread"
UnreadPage == [contents |-> Unread, text |-> Unread]   \* a page not read so far

----------------------------------------------------------------------------
(* Bounds of the model *)

MaxEntries == 2      \* chapters in the TOC
MaxStart == 3        \* largest start page a TOC entry names
MaxPages == 3        \* pages of the source document
MaxTitleLen == 3     \* characters of a title (filename resolution)
MaxIndex == 8        \* largest chapter index (filename resolution)

----------------------------------------------------------------------------
(* Characters *)

Letters == {"a","b","c","d","e","f","g","h","i","j","k","l","m",
            "n","o","p","q","r","s","t","u","v","w","x","y","z"}

DigitSeq == <<"0","1","2","3","4","5","6","7","8","9">>

DigitChars == {DigitSeq[k] : k \in 1..Len(DigitSeq)}

\* \w of a Python 3 str pattern: alphanumerics and underscore
IsWordChar(c) == c \in Letters \cup DigitChars \cup {"_"}

\* \s
IsSpace(c) == c \in {" ", "\t", "\n", "\r", "\f"}

\* [\\/]
IsSeparator(c) == c \in {"/", "\\"}

\* [\w\-\. ]  (the complement of the class removed by _sanitize_filename)
IsAllowedChar(c) == IsWordChar(c) \/ c \in {"-", ".", " "}

chapter_names ==
    <<
       <<"0","1","-","m","o","l","-","b","i","o",".","p","d","f">>,
       <<"0","2","-","h","i","s","t","o","r","y",".","p","d","f">>,
       <<"0","3","-","g","e","n","o","m","e","s",".","p","d","f">>,
       <<"0","4","-","g","e","n","e","s",".","p","d","f">>,
       <<"0","5","-","a","l","i","g","n","m","e","n","t","-","m",".","p","d","f">>,
       <<"0","6","-","a","l","i","g","n","m","e","n","t","-","t",".","p","d","f">>,
       <<"0","7","-","f","i","l","o","g","e","n","y",".","p","d","f">>
    >>

----------------------------------------------------------------------------
(* compute_ranges *)

ChapterRange(title, start_page, end_page) ==
    [title |-> title, start_page |-> start_page, end_page |-> end_page]

\* RangeEnd without the clamp of lines 79-81
RangeEndNoClamp(entries, total, idx) ==
    IF idx + 1 < Len(entries) THEN entries[idx + 2].start_page - 1 ELSE total

\* RangeEnd ending a chapter on the next chapter's first page
RangeEndOverlap(entries, total, idx) ==
    LET start == entries[idx + 1].start_page
        end == IF idx + 1 < Len(entries) THEN entries[idx + 2].start_page ELSE total
    IN  IF end < start THEN start ELSE end

\* lines 75-81: the end page of entry idx (0-based), clamped to its start
RangeEnd(entries, total, idx) ==
    LET start == entries[idx + 1].start_page
        end == IF idx + 1 < Len(entries)
               THEN entries[idx + 2].start_page - 1
               ELSE total
    IN  IF end < start THEN start ELSE end

RECURSIVE RangesFrom(_, _, _, _)
RangesFrom(entries, total, idx, acc) ==
    IF idx >= Len(entries) THEN acc
    ELSE RangesFrom(entries, total, idx + 1,
            Append(acc, ChapterRange(entries[idx + 1].title,
                                     entries[idx + 1].start_page,
                                     RangeEnd(entries, total, idx))))

compute_ranges(entries, total) == RangesFrom(entries, total, 0, <<>>)

----------------------------------------------------------------------------
(* is_blank_page *)

\* What reading a page yields: page.get_contents() gives None, a content stream
\* or raises; page.extract_text() gives "", whitespace only, visible text or
\* raises.  extract_text is not called on a page whose contents are None.
PageKinds ==
    {[contents |-> "none", text |-> Unread]}
    \cup [contents : {"stream", "raise"}, text : {"empty", "spaces", "text", "raise"}]

\* is_blank_page returning True where extract_text raises
is_blank_page_fail_closed(kind) ==
    IF kind.contents = "none" THEN TRUE
    ELSE IF kind.text \in {"empty", "spaces", "raise"} THEN TRUE
    ELSE FALSE

\* lines 89-103
is_blank_page(kind) ==
    IF kind.contents = "none" THEN TRUE
    ELSE IF kind.text \in {"empty", "spaces"} THEN TRUE
    ELSE FALSE

----------------------------------------------------------------------------
(* split_pdf: the pages of one chapter *)

Max(a, b) == IF a >= b THEN a ELSE b

\* LastPageToInclude without max(start0, ...)
LastPageUnclamped(start0, end0, blank) == IF blank THEN end0 - 1 ELSE end0

\* LastPageToInclude ignoring the blank decision
LastPageUntrimmed(start0, end0, blank) == end0

\* lines 122-124
LastPageToInclude(start0, end0, blank) ==
    IF blank THEN Max(start0, end0 - 1) ELSE end0

\* lines 125-126: writer.add_page(reader.pages[p]) for p in range(start0, last + 1);
\* page index p of the reader is page number p + 1 of the source
RECURSIVE AddPages(_, _, _)
AddPages(p, last, acc) ==
    IF p > last THEN acc ELSE AddPages(p + 1, last, Append(acc, p + 1))

\* ChapterPages over range(start0, last), dropping the last page
ChapterPagesShort(start0, last) == AddPages(start0, last - 1, <<>>)

ChapterPages(start0, last) == AddPages(start0, last, <<>>)

\* Selected ignoring the filter
SelectedAlways(idx, only) == TRUE

\* line 115: the iteration body runs unless a filter is set and names another index
Selected(idx, only) == ~(only # None /\ idx # only[1])

----------------------------------------------------------------------------
(* _sanitize_filename and the filename of a chapter *)

RECURSIVE LStrip(_)
LStrip(s) == IF s # <<>> /\ IsSpace(Head(s)) THEN LStrip(Tail(s)) ELSE s

RECURSIVE RStrip(_)
RStrip(s) ==
    IF s # <<>> /\ IsSpace(s[Len(s)]) THEN RStrip(SubSeq(s, 1, Len(s) - 1)) ELSE s

\* str.strip()
Strip(s) == RStrip(LStrip(s))

\* re.sub(r"[\\/]+", "-", name): each maximal run of separators becomes one hyphen
RECURSIVE ReplaceSeparators(_)
ReplaceSeparators(s) ==
    IF s = <<>> THEN <<>>
    ELSE IF IsSeparator(Head(s))
         THEN IF Len(s) > 1 /\ IsSeparator(s[2])
              THEN ReplaceSeparators(Tail(s))
              ELSE <<"-">> \o ReplaceSeparators(Tail(s))
         ELSE <<Head(s)>> \o ReplaceSeparators(Tail(s))

\* re.sub(r"[^\w\-\. ]+", "", name)
RemoveIllegal(s) == SelectSeq(s, IsAllowedChar)

\* re.sub(r"\s+", " ", name): each maximal run of whitespace becomes one space
RECURSIVE CollapseSpaces(_)
CollapseSpaces(s) ==
    IF s = <<>> THEN <<>>
    ELSE IF IsSpace(Head(s))
         THEN IF Len(s) > 1 /\ IsSpace(s[2])
              THEN CollapseSpaces(Tail(s))
              ELSE <<" ">> \o CollapseSpaces(Tail(s))
         ELSE <<Head(s)>> \o CollapseSpaces(Tail(s))

\* _sanitize_filename without the removal of illegal characters (line 142)
sanitize_filename_keep_illegal(name) ==
    Strip(CollapseSpaces(ReplaceSeparators(Strip(name))))

\* lines 138-144
sanitize_filename(name) ==
    Strip(CollapseSpaces(RemoveIllegal(ReplaceSeparators(Strip(name)))))

RECURSIVE Decimal(_)
Decimal(n) ==
    IF n < 10 THEN <<DigitSeq[n + 1]>>
    ELSE Append(Decimal(n \div 10), DigitSeq[(n % 10) + 1])

\* f"{n:02d}" for n >= 0
Format02d(n) == IF n < 10 THEN <<"0">> \o Decimal(n) ELSE Decimal(n)

\* f"{i+1:02d}-{info.title}.pdf"
DerivedName(idx, title) ==
    Format02d(idx + 1) \o <<"-">> \o title \o <<".", "p", "d", "f">>

\* lines 128-131
ResolveFilename(idx, title, use_names) ==
    IF use_names /\ idx < Len(chapter_names)
    THEN chapter_names[idx + 1]
    ELSE sanitize_filename(DerivedName(idx, title))

----------------------------------------------------------------------------
(* Inputs *)

SeqsUpTo(S, n) == UNION {[1..k -> S] : k \in 0..n}

\* Titles of the chapters of a run: neighbouring chapters carry different titles
SampleTitles == <<<<"d","n","a">>, <<"a","/","b"," ","*"," ","c">>>>

TitleAt(k, shift) == SampleTitles[((k + shift) % Len(SampleTitles)) + 1]

\* parse_toc: any number of chapters, each with a title and a page number \d+
\* read as a 1-based page; the pages need not increase nor lie in the document
TocEntries ==
    UNION {{[k \in 1..n |-> [title |-> TitleAt(k, shift), start_page |-> starts[k]]] :
               shift \in 1..Len(SampleTitles), starts \in [1..n -> 1..MaxStart]} :
           n \in 0..MaxEntries}

\* Characters of a title: a word character, an underscore, both separators,
\* dot, hyphen, space and a character outside [\w\-\. ]
TitleChars == {"a", "_", "/", "\\", ".", "-", " ", "*"}

\* parse_toc, lines 54-56 and 64-68: a title is stripped, its whitespace is
\* collapsed to single spaces and no backslash is followed by a letter
IsParsedTitle(s) ==
    /\ s = Strip(CollapseSpaces(s))
    /\ \A k \in 1..Len(s) : s[k] = "\\" => (k = Len(s) \/ s[k + 1] \notin Letters)

ParsedTitles == {s \in SeqsUpTo(TitleChars, MaxTitleLen) : IsParsedTitle(s)}

----------------------------------------------------------------------------
(* main *)

\* line 174: one printed line per range
PrintedLine(idx, r) ==
    [idx |-> idx, title |-> r.title, start |-> r.start_page, end |-> r.end_page]

PrintedLines(rs) == [k \in 1..Len(rs) |-> PrintedLine(k - 1, rs[k])]

\* AfterPrint ignoring --toc-only
AfterPrintAlwaysSplit(dry) == "split"

\* lines 176-179: --toc-only returns before split_pdf
AfterPrint(dry) == IF dry THEN "done" ELSE "split"

Init ==
    /\ toc_exists \in BOOLEAN
    /\ pdf_exists \in BOOLEAN
    /\ toc_entries \in (IF toc_exists THEN TocEntries ELSE {<<>>})
    /\ total_pages \in (IF pdf_exists THEN 1..MaxPages ELSE {0})
    /\ toc_only \in BOOLEAN
    /\ use_chapter_names \in BOOLEAN
    /\ only_index \in {None} \cup {<<k>> : k \in -1..Len(toc_entries)}
    /\ pc = "start"
    /\ ranges = <<>>
    /\ printed = <<>>
    /\ i = 0
    /\ info_title = <<>>
    /\ filename = <<>>
    /\ page_kind = [p \in 0..(total_pages - 1) |-> UnreadPage]
    /\ decided = <<>>
    /\ written = <<>>
    /\ partial = {}
    /\ dir_created = FALSE
    /\ log = <<>>
    /\ error = NoError

\* lines 158-177
Main ==
    /\ pc = "start"
    /\ IF ~toc_exists \/ ~pdf_exists
       THEN /\ pc' = "failed"
            /\ error' = "FileNotFoundError"
            /\ UNCHANGED <<ranges, printed>>
       ELSE /\ ranges' = compute_ranges(toc_entries, total_pages)
            /\ printed' = PrintedLines(ranges')
            /\ pc' = AfterPrint(toc_only)
            /\ UNCHANGED error
    /\ UNCHANGED <<toc_exists, pdf_exists, toc_entries, total_pages, toc_only,
                   use_chapter_names, only_index, i, info_title, filename, page_kind,
                   decided, written, partial, dir_created, log>>

----------------------------------------------------------------------------
(* split_pdf, one iteration of its loop per step *)

inputs == <<toc_exists, pdf_exists, toc_entries, total_pages, toc_only,
            use_chapter_names, only_index, ranges, printed>>

Start0(idx) == ranges[idx + 1].start_page - 1
End0(idx) == ranges[idx + 1].end_page - 1

\* reader.pages[k] raises IndexError outside the document
InDocument(k) == k \in 0..(total_pages - 1)

\* PcAfter swallowing the exception of a chapter
PcAfterSwallow(ok) == "split"

\* lines 134-135 and the loop: the next iteration after a chapter is written,
\* the exception propagates out of split_pdf and main otherwise
PcAfter(ok) == IF ok THEN "split" ELSE "failed"

\* lines 115-116
SkipChapter ==
    /\ pc = "split"
    /\ i < Len(ranges)
    /\ ~Selected(i, only_index)
    /\ i' = i + 1
    /\ UNCHANGED <<inputs, pc, info_title, filename, page_kind, decided, written,
                   partial, dir_created, log, error>>

\* line 123 -> line 87: the last page of the range is not a page of the document
ChapterOutOfRange ==
    /\ pc = "split"
    /\ i < Len(ranges)
    /\ Selected(i, only_index)
    /\ ~InDocument(End0(i))
    /\ info_title' = ranges[i + 1].title
    /\ log' = Append(log, i)
    /\ error' = "IndexError"
    /\ pc' = PcAfter(FALSE)
    /\ UNCHANGED <<inputs, i, filename, page_kind, decided, written, partial,
                   dir_created>>

\* lines 117-135 with every call succeeding
SplitChapter ==
    /\ pc = "split"
    /\ i < Len(ranges)
    /\ Selected(i, only_index)
    /\ InDocument(End0(i))
    /\ \E kind \in PageKinds :
         /\ page_kind[End0(i)] \in {UnreadPage, kind}
         /\ LET blank == is_blank_page(kind)
                last == LastPageToInclude(Start0(i), End0(i), blank)
                name == ResolveFilename(i, ranges[i + 1].title, use_chapter_names)
            IN  /\ page_kind' = [page_kind EXCEPT ![End0(i)] = kind]
                /\ decided' = (i :> blank) @@ decided
                /\ info_title' = ranges[i + 1].title
                /\ filename' = name
                /\ written' = (i :> [name |-> name,
                                     pages |-> ChapterPages(Start0(i), last)]) @@ written
    /\ dir_created' = TRUE
    /\ log' = Append(log, i)
    /\ i' = i + 1
    /\ pc' = PcAfter(TRUE)
    /\ UNCHANGED <<inputs, partial, error>>

\* lines 117-135 with mkdir, open or write raising OSError
FailChapter ==
    /\ pc = "split"
    /\ i < Len(ranges)
    /\ Selected(i, only_index)
    /\ InDocument(End0(i))
    /\ \E kind \in PageKinds, stage \in {"mkdir", "open", "write"} :
         /\ page_kind[End0(i)] \in {UnreadPage, kind}
         /\ page_kind' = [page_kind EXCEPT ![End0(i)] = kind]
         /\ decided' = (i :> is_blank_page(kind)) @@ decided
         /\ dir_created' = (dir_created \/ stage # "mkdir")
         /\ partial' = IF stage = "write" THEN partial \cup {i} ELSE partial
    /\ info_title' = ranges[i + 1].title
    /\ filename' = ResolveFilename(i, ranges[i + 1].title, use_chapter_names)
    /\ log' = Append(log, i)
    /\ error' = "OSError"
    /\ pc' = PcAfter(FALSE)
    /\ UNCHANGED <<inputs, i, written>>

\* the loop is exhausted: split_pdf and main return
SplitDone ==
    /\ pc = "split"
    /\ i = Len(ranges)
    /\ pc' = "done"
    /\ UNCHANGED <<inputs, i, info_title, filename, page_kind, decided, written,
                   partial, dir_created, log, error>>

Next == Main \/ SkipChapter \/ ChapterOutOfRange \/ SplitChapter \/ FailChapter \/ SplitDone

Spec == Init /\ [][Next]_vars

----------------------------------------------------------------------------
(* Filename resolution on its own: lines 128-131 for any index and title *)

InitName ==
    /\ i \in 0..MaxIndex
    /\ info_title \in ParsedTitles
    /\ use_chapter_names \in BOOLEAN
    /\ pc = "resolve"
    /\ filename = <<>>
    /\ toc_exists = TRUE
    /\ pdf_exists = TRUE
    /\ toc_entries = <<>>
    /\ total_pages = 0
    /\ toc_only = FALSE
    /\ only_index = None
    /\ ranges = <<>>
    /\ printed = <<>>
    /\ page_kind = <<>>
    /\ decided = <<>>
    /\ written = <<>>
    /\ partial = {}
    /\ dir_created = FALSE
    /\ log = <<>>
    /\ error = NoError

ResolveName ==
    /\ pc = "resolve"
    /\ filename' = ResolveFilename(i, info_title, use_chapter_names)
    /\ pc' = "resolved"
    /\ UNCHANGED <<inputs, i, info_title, page_kind, decided, written, partial,
                   dir_created, log, error>>

NextName == ResolveName

SpecName == InitName /\ [][NextName]_vars

----------------------------------------------------------------------------
(* Properties *)

\* main has computed and printed the ranges
RangesComputed == pc # "start" /\ error # "FileNotFoundError"

Chapters == 0..(Len(ranges) - 1)

RawLength(c) == ranges[c + 1].end_page - ranges[c + 1].start_page + 1

\* C1 as stated: compute_ranges gives exactly N ranges, each with
\* start_page <= end_page <= P, and consecutive ranges contiguous:
\* range[i].end_page + 1 = range[i+1].start_page for every i < N-1.
C1_AsStated ==
    RangesComputed =>
        /\ Len(ranges) = Len(toc_entries)
        /\ \A k \in 1..Len(ranges) :
             /\ ranges[k].start_page <= ranges[k].end_page
             /\ ranges[k].end_page <= total_pages
        /\ \A k \in 1..(Len(ranges) - 1) :
             ranges[k].end_page + 1 = ranges[k + 1].start_page

\* C1 amended: compute_ranges gives exactly N ranges, each with
\* start_page <= end_page; every end_page is <= P when no entry starts after
\* page P; and range[i].end_page + 1 = range[i+1].start_page for every i < N-1
\* whose next entry starts on a later page than entry i.
C1_Ranges ==
    RangesComputed =>
        /\ Len(ranges) = Len(toc_entries)
        /\ \A k \in 1..Len(ranges) : ranges[k].start_page <= ranges[k].end_page
        /\ (\A j \in 1..Len(toc_entries) : toc_entries[j].start_page <= total_pages)
              => \A k \in 1..Len(ranges) : ranges[k].end_page <= total_pages
        /\ \A k \in 1..(Len(ranges) - 1) :
             toc_entries[k + 1].start_page > toc_entries[k].start_page
                => ranges[k].end_page + 1 = ranges[k + 1].start_page

\* Two chapters on increasing pages inside the document: contiguous, the first
\* longer than one page, the last ending on the last page
C1_Witness ==
    /\ RangesComputed
    /\ Len(ranges) = 2
    /\ ranges[1].start_page < ranges[1].end_page
    /\ ranges[1].end_page + 1 = ranges[2].start_page
    /\ ranges[2].end_page = total_pages

Str_Intro == <<"I","n","t","r","o">>
Str_Bio == <<"B","i","o">>
Str_History == <<"H","i","s","t","o","r","y">>

\* C2: compute_ranges yields, in input order, one range per entry with the
\* entry's title and start page; its end page is the next entry's start page
\* minus one, or total_pages for the last entry, replaced by the start page
\* when that is smaller; empty input gives empty output; the run does not fail
\* in it; and [(Intro,1),(Bio,10),(History,25)] with 40 pages gives
\* [(1,9),(10,24),(25,40)].
C2_RangeValues ==
    /\ RangesComputed =>
         /\ DOMAIN ranges = DOMAIN toc_entries
         /\ \A k \in DOMAIN toc_entries :
              LET start == toc_entries[k].start_page
                  next == IF k < Len(toc_entries)
                          THEN toc_entries[k + 1].start_page - 1
                          ELSE total_pages
              IN  /\ ranges[k].title = toc_entries[k].title
                  /\ ranges[k].start_page = start
                  /\ ranges[k].end_page = IF next < start THEN start ELSE next
    /\ (toc_exists /\ pdf_exists /\ pc # "start") => RangesComputed
    /\ compute_ranges(<<[title |-> Str_Intro, start_page |-> 1],
                        [title |-> Str_Bio, start_page |-> 10],
                        [title |-> Str_History, start_page |-> 25]>>, 40)
         = <<ChapterRange(Str_Intro, 1, 9), ChapterRange(Str_Bio, 10, 24),
             ChapterRange(Str_History, 25, 40)>>

\* Two entries on the same page: the first range is clamped to one page, the
\* last one runs to the end of the document
C2_Witness ==
    /\ RangesComputed
    /\ Len(ranges) = 2
    /\ toc_entries[1].start_page = toc_entries[2].start_page
    /\ ranges[1].end_page = ranges[1].start_page
    /\ ranges[2].end_page = total_pages
    /\ ranges[2].end_page > ranges[2].start_page

\* C3: blank-page trimming never reduces a chapter to zero pages: whatever the
\* blank decision for its last page, every written chapter document holds at
\* least one page and the last page extracted is >= start_page.
C3_NeverEmpty ==
    \A c \in DOMAIN written :
        LET pages == written[c].pages
        IN  /\ Len(pages) >= 1
            /\ pages[Len(pages)] >= ranges[c + 1].start_page

\* A one-page chapter whose only page is blank has been written
C3_Witness ==
    \E c \in DOMAIN written :
        /\ decided[c]
        /\ ranges[c + 1].start_page = ranges[c + 1].end_page

\* C4 as stated: whenever the last page of a chapter range is blank, the
\* document written for the chapter has exactly one page fewer than the raw
\* range length end_page - start_page + 1.
C4_AsStated ==
    \A c \in DOMAIN written :
        decided[c] => Len(written[c].pages) = RawLength(c) - 1

\* C4 amended: whenever the last page of a chapter range is blank and the range
\* is longer than one page, the document written for the chapter has exactly
\* one page fewer than the raw range length; a one-page range whose page is
\* blank is written with that one page.
C4_TrimsOnePage ==
    \A c \in DOMAIN written :
        decided[c] =>
            Len(written[c].pages) = IF RawLength(c) > 1 THEN RawLength(c) - 1 ELSE 1

\* A chapter of several pages with a blank last page has been written
C4_Witness ==
    \E c \in DOMAIN written : decided[c] /\ RawLength(c) > 1

\* C5: the document written for a chapter holds the source pages start_page up
\* to end_page, or up to end_page - 1, each once and in order; the last page of
\* the range is the only one that can be missing, and only when it was found
\* blank; the source document keeps its pages.
C5_PagesOfChapter ==
    /\ \A c \in DOMAIN written :
         LET pages == written[c].pages
             r == ranges[c + 1]
         IN  /\ Len(pages) \in {RawLength(c), RawLength(c) - 1}
             /\ \A k \in 1..Len(pages) : pages[k] = r.start_page + k - 1
             /\ Len(pages) = RawLength(c) - 1 => decided[c]
             /\ \A k \in 1..Len(pages) : InDocument(pages[k] - 1)
    /\ DOMAIN page_kind = 0..(total_pages - 1)

\* A chapter of three pages with a blank last page has been written as its
\* first two pages
C5_Witness ==
    \E c \in DOMAIN written :
        /\ decided[c]
        /\ RawLength(c) = 3
        /\ written[c].pages = <<ranges[c + 1].start_page, ranges[c + 1].start_page + 1>>

\* What reading the last page of chapter c yielded
LastPageKind(c) == page_kind[End0(c)]

\* C6 as stated: any failure of content access or text extraction during
\* blank detection gives the decision "not blank".
C6_AsStated ==
    \A c \in DOMAIN decided :
        (LastPageKind(c).contents = "raise" \/ LastPageKind(c).text = "raise")
            => ~decided[c]

\* C6 amended: a failure of text extraction gives the decision "not blank"; a
\* failure of content access falls back to text extraction, so the page is
\* blank exactly when its extracted text is empty or whitespace; neither
\* failure ends the run: a page found not blank is kept, and a chapter whose
\* blank detection ran is left unwritten only by an OSError of its write.
C6_FailuresNotFatal ==
    \A c \in DOMAIN decided :
        /\ LastPageKind(c).text = "raise" => ~decided[c]
        /\ LastPageKind(c).contents = "raise"
              => (decided[c] <=> LastPageKind(c).text \in {"empty", "spaces"})
        /\ c \in DOMAIN written /\ ~decided[c]
              => written[c].pages[Len(written[c].pages)] = ranges[c + 1].end_page
        /\ c \notin DOMAIN written => (pc = "failed" /\ error = "OSError")

\* Content access and text extraction both failed on the last page of a
\* chapter, the chapter was written with that page and the run completed
C6_Witness ==
    /\ pc = "done"
    /\ \E c \in DOMAIN written :
         /\ LastPageKind(c).contents = "raise"
         /\ LastPageKind(c).text = "raise"
         /\ written[c].pages[Len(written[c].pages)] = ranges[c + 1].end_page

Chars(str) == {str[k] : k \in 1..Len(str)}

\* A name that stays inside the directory it is joined to
IsPlainName(name) ==
    /\ name # <<>>
    /\ name # <<".">>
    /\ name # <<".", ".">>
    /\ \A ch \in Chars(name) : ~IsSeparator(ch)

\* C7: the filename resolved for chapter i is the predefined name when
\* predefined names are enabled and one exists at position i, otherwise the
\* sanitized "<i+1, two digits>-<title>.pdf"; in every case it holds no "/",
\* no "\", no character outside word characters, hyphen, dot and space, and
\* names a file inside the output directory.
C7_SafeFilename ==
    pc = "resolved" =>
        /\ IF use_chapter_names /\ i < Len(chapter_names)
           THEN filename = chapter_names[i + 1]
           ELSE /\ filename = sanitize_filename(DerivedName(i, info_title))
                /\ SubSeq(filename, 1, 3) = Format02d(i + 1) \o <<"-">>
                /\ SubSeq(filename, Len(filename) - 3, Len(filename))
                     = <<".", "p", "d", "f">>
        /\ \A ch \in Chars(filename) :
             IsWordChar(ch) \/ ch = "-" \/ ch = "." \/ ch = " "
        /\ IsPlainName(filename)

\* Predefined names are enabled but none exists at this position, and the
\* title holds a separator and a character outside the allowed set
C7_Witness ==
    /\ pc = "resolved"
    /\ use_chapter_names
    /\ i >= Len(chapter_names)
    /\ "/" \in Chars(info_title)
    /\ "*" \in Chars(info_title)

\* C8: in --toc-only mode, with or without a chapter index, the ranges of all
\* chapters are printed and the run ends without entering split_pdf: no file,
\* no directory, no page read.
C8_TocOnlyWritesNothing ==
    toc_only =>
        /\ pc \in {"start", "done", "failed"}
        /\ pc = "failed" => error = "FileNotFoundError"
        /\ pc = "done" =>
             /\ Len(printed) = Len(toc_entries)
             /\ \A k \in 1..Len(printed) :
                  printed[k] = [idx |-> k - 1, title |-> toc_entries[k].title,
                                start |-> ranges[k].start_page,
                                end |-> ranges[k].end_page]
        /\ written = <<>>
        /\ partial = {}
        /\ ~dir_created
        /\ log = <<>>
        /\ \A p \in DOMAIN page_kind : page_kind[p] = UnreadPage

\* A --toc-only run with a filter naming an existing chapter has ended after
\* printing two ranges
C8_Witness ==
    /\ toc_only
    /\ pc = "done"
    /\ only_index # None
    /\ only_index[1] \in Chapters
    /\ Len(printed) = 2

SelectedBelow(n) == {c \in 0..(n - 1) : c \in Chapters /\ (only_index = None \/ only_index[1] = c)}

\* C9: split_pdf runs the selected chapters one at a time in increasing index
\* order, each at most once; the files written are those of the selected
\* chapters before the loop index; an error of chapter k ends the run as
\* failed with the files of the selected chapters below k in place and no
\* file of k or of a later chapter; a run that completes has written every
\* selected chapter.
C9_InOrderPrefix ==
    /\ \A a, b \in 1..Len(log) : a < b => log[a] < log[b]
    /\ \A a \in 1..Len(log) : log[a] \in SelectedBelow(Len(ranges))
    /\ error \in {"IndexError", "OSError"} =>
         /\ pc = "failed"
         /\ log # <<>>
         /\ DOMAIN written = SelectedBelow(log[Len(log)])
         /\ partial \subseteq {log[Len(log)]}
    /\ error = NoError =>
         /\ DOMAIN written = SelectedBelow(i)
         /\ {log[a] : a \in 1..Len(log)} = DOMAIN written
         /\ partial = {}
    /\ (pc = "done" /\ ~toc_only) => DOMAIN written = SelectedBelow(Len(ranges))

\* The write of the second chapter failed after the first chapter was written
C9_Witness ==
    /\ pc = "failed"
    /\ error = "OSError"
    /\ log = <<0, 1>>
    /\ DOMAIN written = {0}

\* What split_pdf writes for chapter c, whatever the filter
ChapterFile(c) ==
    [name |-> ResolveFilename(c, ranges[c + 1].title, use_chapter_names),
     pages |-> ChapterPages(Start0(c),
                  LastPageToInclude(Start0(c), End0(c), is_blank_page(LastPageKind(c))))]

PagesRead == {p \in DOMAIN page_kind : page_kind[p] # UnreadPage}

\* The run of split_pdf has ended, by returning or by an exception of a chapter
SplitEnded == ~toc_only /\ (pc = "done" \/ (pc = "failed" /\ error # "FileNotFoundError"))

\* C10 as stated: with a filter k, 0 <= k < N, split_pdf writes exactly one
\* file, that of chapter k (an OSError of the write set aside); with k outside
\* 0..N-1 it writes no file and raises no error.
C10_AsStated ==
    (SplitEnded /\ only_index # None /\ error # "OSError") =>
        IF only_index[1] \in Chapters
        THEN DOMAIN written = {only_index[1]}
        ELSE written = <<>> /\ error = NoError

\* C10 amended: with a filter k, 0 <= k < N, whose chapter ends inside the
\* document and whose write does not fail, split_pdf writes exactly one file,
\* that of chapter k, with the pages and the filename chapter k gets in a full
\* split, and touches no other chapter, not even its blank check; when the
\* last page of chapter k lies outside the document the run fails with
\* IndexError and writes nothing; with k outside 0..N-1, negative included,
\* no file is written, no page is read and no error is raised.
C10_SingleChapter ==
    /\ \A c \in DOMAIN written : written[c] = ChapterFile(c)
    /\ (SplitEnded /\ only_index # None) =>
         LET k == only_index[1]
         IN  IF k \in Chapters
             THEN /\ log = <<k>>
                  /\ IF InDocument(End0(k))
                     THEN /\ PagesRead = {End0(k)}
                          /\ DOMAIN decided = {k}
                          /\ error \in {NoError, "OSError"}
                          /\ error = NoError => DOMAIN written = {k}
                          /\ error = "OSError" => written = <<>>
                     ELSE /\ error = "IndexError"
                          /\ written = <<>>
                          /\ PagesRead = {}
             ELSE /\ written = <<>>
                  /\ partial = {}
                  /\ log = <<>>
                  /\ PagesRead = {}
                  /\ error = NoError
                  /\ pc = "done"

\* A run filtered to the second of two chapters has written that chapter alone
C10_Witness ==
    /\ pc = "done"
    /\ only_index = <<1>>
    /\ Len(ranges) = 2
    /\ DOMAIN written = {1}

====
